---- MODULE Spec2Model ----
(***************************************************************************)
(* NOTAM parsing and airspace store of backend/app/services/notam.py.      *)
(*                                                                         *)
(* Notice texts are TLA+ strings and the regular expressions of the parser *)
(* are operators over their characters.  Python's Optional[T] is encoded   *)
(* as a sequence: None is << >> and a value v is << v >>.  Coordinates are *)
(* kept in arc-minutes (degrees * 60), which is exact for DDMM notation;   *)
(* polygon vertices are in thousandths of a degree.                        *)
(***************************************************************************)
EXTENDS Integers, Sequences, FiniteSets, TLC

None == << >>
Some(v) == << v >>
IsNone(o) == o = << >>
Val(o) == o[1]

(* Python truthiness of an Optional number: None and 0 (0.0, -0.0) are falsy *)
Truthy(o) == o # << >> /\ o[1] # 0

(***************************************************************************)
(* Characters and strings                                                  *)
(***************************************************************************)
Digits == {"0", "1", "2", "3", "4", "5", "6", "7", "8", "9"}
UpperLetters == {"A", "B", "C", "D", "E", "F", "G", "H", "I", "J", "K", "L", "M",
                 "N", "O", "P", "Q", "R", "S", "T", "U", "V", "W", "X", "Y", "Z"}
LowerAlphabet == "abcdefghijklmnopqrstuvwxyz"
UpperAlphabet == "ABCDEFGHIJKLMNOPQRSTUVWXYZ"
Whitespace == {" ", "\n", "\t", "\r", "\f"}

(* t[i-1:i]: the i-th character, or "" outside the string *)
Ch(t, i) == IF 1 <= i /\ i <= Len(t) THEN SubSeq(t, i, i) ELSE ""

DigitVal(c) ==
    CASE c = "0" -> 0 [] c = "1" -> 1 [] c = "2" -> 2 [] c = "3" -> 3 [] c = "4" -> 4
      [] c = "5" -> 5 [] c = "6" -> 6 [] c = "7" -> 7 [] c = "8" -> 8 [] c = "9" -> 9

AllIn(t, i, j, class) == \A k \in i..j : Ch(t, k) \in class

(* str.upper() on ASCII *)
UpperCh(c) ==
    IF \E k \in 1..26 : Ch(LowerAlphabet, k) = c
    THEN Ch(UpperAlphabet, CHOOSE k \in 1..26 : Ch(LowerAlphabet, k) = c)
    ELSE c

RECURSIVE Upper(_)
Upper(t) == IF t = "" THEN "" ELSE UpperCh(Ch(t, 1)) \o Upper(SubSeq(t, 2, Len(t)))

(* str.strip() *)
Strip(t) ==
    LET nonws == {k \in 1..Len(t) : Ch(t, k) \notin Whitespace}
    IN IF nonws = {} THEN ""
       ELSE SubSeq(t, CHOOSE k \in nonws : \A m \in nonws : k <= m,
                      CHOOSE k \in nonws : \A m \in nonws : k >= m)

(* t[:n] *)
Prefix(t, n) == SubSeq(t, 1, IF Len(t) < n THEN Len(t) ELSE n)

Min(S) == CHOOSE k \in S : \A m \in S : k <= m
Max(S) == CHOOSE k \in S : \A m \in S : k >= m

(* first index at or after i holding a non-whitespace character (Len+1 if none): the end of a greedy \s* *)
SkipWs(t, i) ==
    LET stop == {k \in i..Len(t) : Ch(t, k) \notin Whitespace}
    IN IF stop = {} THEN Len(t) + 1 ELSE Min(stop)

(* value of a run of decimal digits t[i..j] *)
RECURSIVE DigitsVal(_, _, _)
DigitsVal(t, i, j) == IF j < i THEN 0 ELSE DigitsVal(t, i, j - 1) * 10 + DigitVal(Ch(t, j))

(* t.replace(pat, "") for a two-character pattern *)
RECURSIVE Remove2(_, _)
Remove2(t, pat) ==
    IF Len(t) < 2 THEN t
    ELSE IF SubSeq(t, 1, 2) = pat THEN Remove2(SubSeq(t, 3, Len(t)), pat)
    ELSE Ch(t, 1) \o Remove2(SubSeq(t, 2, Len(t)), pat)

(* t.split(sep) for a one-character separator *)
RECURSIVE Split(_, _)
Split(t, sep) ==
    LET hits == {k \in 1..Len(t) : Ch(t, k) = sep}
    IN IF hits = {} THEN << t >>
       ELSE << SubSeq(t, 1, Min(hits) - 1) >> \o Split(SubSeq(t, Min(hits) + 1, Len(t)), sep)

RECURSIVE DropUnderscores(_)
DropUnderscores(t) ==
    IF t = "" THEN ""
    ELSE IF Ch(t, 1) = "_" THEN DropUnderscores(SubSeq(t, 2, Len(t)))
    ELSE Ch(t, 1) \o DropUnderscores(SubSeq(t, 2, Len(t)))

(* the digits of an int literal without its sign: Some(magnitude), or None *)
int_digits(body) ==
    IF /\ Len(body) >= 1
       /\ Ch(body, 1) \in Digits /\ Ch(body, Len(body)) \in Digits
       /\ \A k \in 1..Len(body) : Ch(body, k) \in Digits \cup {"_"}
       /\ \A k \in 1..(Len(body) - 1) : ~(Ch(body, k) = "_" /\ Ch(body, k + 1) = "_")
    THEN Some(DigitsVal(DropUnderscores(body), 1, Len(DropUnderscores(body))))
    ELSE None

negate(mag) == IF mag = None THEN None ELSE Some(0 - Val(mag))

(* int(s) on the stripped text *)
int_stripped(u) ==
    IF Ch(u, 1) = "-" THEN negate(int_digits(SubSeq(u, 2, Len(u))))
    ELSE IF Ch(u, 1) = "+" THEN int_digits(SubSeq(u, 2, Len(u)))
    ELSE int_digits(u)

(* int(s): Some(value), or None where Python raises ValueError.             *)
(* Accepts surrounding whitespace, one sign, digits with single underscores *)
PyInt(s) == int_stripped(Strip(s))

(* needle in haystack *)
Contains(haystack, needle) ==
    \E k \in 1..(Len(haystack) - Len(needle) + 1) :
        SubSeq(haystack, k, k + Len(needle) - 1) = needle

(* dict.get(key, default) on a dict modelled as a function *)
Get(d, key, default) == IF key \in DOMAIN d THEN d[key] ELSE default

(* d[key] = v *)
Put(d, key, v) == [k \in DOMAIN d \cup {key} |-> IF k = key THEN v ELSE d[k]]

(***************************************************************************)
(* parse_icao_coordinates: DDMM[NS]DDDMM[EW] to (lat, lon) in arc-minutes  *)
(***************************************************************************)
(* the hemisphere letters matched and not applied *)
coordinates_of_stripped_unsigned(s) ==
    IF /\ AllIn(s, 1, 4, Digits) /\ Ch(s, 5) \in {"N", "S"}
       /\ AllIn(s, 6, 10, Digits) /\ Ch(s, 11) \in {"E", "W"}
    THEN Some([lat |-> DigitsVal(s, 1, 2) * 60 + DigitsVal(s, 3, 4),
               lon |-> DigitsVal(s, 6, 8) * 60 + DigitsVal(s, 9, 10)])
    ELSE None

coordinates_of_stripped(s) ==
    LET (* (\d{2})(\d{2})([NS])(\d{3})(\d{2})([EW]) anchored at the start *)
        match == /\ AllIn(s, 1, 4, Digits) /\ Ch(s, 5) \in {"N", "S"}
                 /\ AllIn(s, 6, 10, Digits) /\ Ch(s, 11) \in {"E", "W"}
        (* (\d{4})([NS])(\d{5})([EW]) anchored at the start *)
        match_alt == /\ AllIn(s, 1, 4, Digits) /\ Ch(s, 5) \in {"N", "S"}
                     /\ AllIn(s, 6, 10, Digits) /\ Ch(s, 11) \in {"E", "W"}
        lat == DigitsVal(s, 1, 2) * 60 + DigitsVal(s, 3, 4)
        lon == DigitsVal(s, 6, 8) * 60 + DigitsVal(s, 9, 10)
    IN IF ~match /\ ~match_alt THEN None
       ELSE Some([lat |-> IF Ch(s, 5) = "S" THEN 0 - lat ELSE lat,
                  lon |-> IF Ch(s, 11) = "W" THEN 0 - lon ELSE lon])

parse_icao_coordinates(coord_str) ==
    IF coord_str = "" THEN None ELSE coordinates_of_stripped(Strip(coord_str))

(***************************************************************************)
(* parse_notam_datetime: YYMMDDHHMM to a UTC datetime                      *)
(***************************************************************************)
IsLeap(y) == (y % 4 = 0 /\ y % 100 # 0) \/ y % 400 = 0

DaysInMonth(y, m) ==
    IF m = 2 THEN (IF IsLeap(y) THEN 29 ELSE 28)
    ELSE IF m \in {4, 6, 9, 11} THEN 30 ELSE 31

(* datetime(year, month, day, hour, minute, tzinfo=utc): None where it raises ValueError *)
MakeDatetime(year, month, day, hour, minute) ==
    IF /\ year >= 1 /\ year <= 9999
       /\ month >= 1 /\ month <= 12
       /\ day >= 1 /\ day <= DaysInMonth(year, month)
       /\ hour >= 0 /\ hour <= 23
       /\ minute >= 0 /\ minute <= 59
    THEN Some([year |-> year, month |-> month, day |-> day, hour |-> hour, minute |-> minute])
    ELSE None

(* the two-digit year read in the 1900s *)
datetime_of_ints_1900(yy, mo, dd, hh, mi) ==
    IF None \in {yy, mo, dd, hh, mi} THEN None
    ELSE MakeDatetime(1900 + Val(yy), Val(mo), Val(dd), Val(hh), Val(mi))

(* datetime(year, month, day, hour, minute) from the five int(...) results *)
datetime_of_ints(yy, mo, dd, hh, mi) ==
    IF None \in {yy, mo, dd, hh, mi} THEN None            \* except (ValueError, IndexError)
    ELSE MakeDatetime(2000 + Val(yy), Val(mo), Val(dd), Val(hh), Val(mi))

(* the try block, on dt_str.strip().upper() *)
datetime_of_fields(s) ==
    IF Len(s) < 10 THEN None
    ELSE datetime_of_ints(PyInt(SubSeq(s, 1, 2)), PyInt(SubSeq(s, 3, 4)), PyInt(SubSeq(s, 5, 6)),
                          PyInt(SubSeq(s, 7, 8)), PyInt(SubSeq(s, 9, 10)))

parse_notam_datetime(dt_str) ==
    IF dt_str = "" \/ Upper(dt_str) = "PERM" THEN None
    ELSE datetime_of_fields(Upper(Strip(dt_str)))

(* total order of datetimes *)
DtKey(d) == (((d.year * 12 + (d.month - 1)) * 31 + (d.day - 1)) * 24 + d.hour) * 60 + d.minute

(***************************************************************************)
(* parse_q_line                                                            *)
(***************************************************************************)
DefaultRadiusNm == 5

(* the radius read from whatever digits follow the point, one to three of them *)
q_line_fields_any_digits(parts) ==
    LET n == Len(parts)
        lower == IF n >= 6 THEN PyInt(Strip(parts[6])) ELSE None
        upper == IF n >= 7 THEN PyInt(Strip(parts[7])) ELSE None
        coord_radius == IF n >= 8 THEN Strip(parts[8]) ELSE ""
        has_coord == n >= 8 /\ Len(coord_radius) >= 11
        radius == IF Len(coord_radius) >= 12
                  THEN PyInt(SubSeq(coord_radius, 12, IF Len(coord_radius) >= 14 THEN 14 ELSE Len(coord_radius)))
                  ELSE None
    IN [fir |-> IF n >= 1 THEN Some(Strip(parts[1])) ELSE None,
        codes |-> IF n >= 2 THEN Some(Strip(parts[2])) ELSE None,
        traffic |-> IF n >= 3 THEN Some(Strip(parts[3])) ELSE None,
        lower |-> IF lower # None THEN lower ELSE Some(0),
        upper |-> IF upper # None THEN upper ELSE Some(999),
        coords |-> IF has_coord THEN parse_icao_coordinates(SubSeq(coord_radius, 1, 11)) ELSE None,
        radius_nm |-> IF ~has_coord THEN None
                      ELSE IF radius # None THEN radius
                      ELSE Some(DefaultRadiusNm)]

(* the fields of the Q-line, parts being q_line.split('/') *)
q_line_fields(parts) ==
    LET n == Len(parts)
        lower == IF n >= 6 THEN PyInt(Strip(parts[6])) ELSE None
        upper == IF n >= 7 THEN PyInt(Strip(parts[7])) ELSE None
        coord_radius == IF n >= 8 THEN Strip(parts[8]) ELSE ""
        has_coord == n >= 8 /\ Len(coord_radius) >= 11
        radius == IF Len(coord_radius) >= 14
                  THEN PyInt(SubSeq(coord_radius, 12, 14))
                  ELSE None
    IN [fir |-> IF n >= 1 THEN Some(Strip(parts[1])) ELSE None,
        codes |-> IF n >= 2 THEN Some(Strip(parts[2])) ELSE None,
        traffic |-> IF n >= 3 THEN Some(Strip(parts[3])) ELSE None,
        lower |-> IF lower # None THEN lower ELSE Some(0),
        upper |-> IF upper # None THEN upper ELSE Some(999),
        coords |-> IF has_coord THEN parse_icao_coordinates(SubSeq(coord_radius, 1, 11)) ELSE None,
        radius_nm |-> IF ~has_coord THEN None
                      ELSE IF radius # None THEN radius
                      ELSE Some(DefaultRadiusNm)]

(* result['lat'], result['lon'] = coords, when coords is not None *)
q_line_result(f) ==
    [fir |-> f.fir, codes |-> f.codes, traffic |-> f.traffic,
     lower |-> f.lower, upper |-> f.upper,
     lat |-> IF f.coords # None THEN Some(Val(f.coords).lat) ELSE None,
     lon |-> IF f.coords # None THEN Some(Val(f.coords).lon) ELSE None,
     radius_nm |-> f.radius_nm]

parse_q_line(q_line) ==
    IF q_line = ""
    THEN [fir |-> None, codes |-> None, traffic |-> None,
          lower |-> Some(0), upper |-> Some(999),
          lat |-> None, lon |-> None, radius_nm |-> None]
    ELSE q_line_result(q_line_fields(Split(Strip(Remove2(q_line, "Q)")), "/")))

(***************************************************************************)
(* Field extraction: the regular expressions of parse_notam_text.  Each     *)
(* operator is re.search: the match at the leftmost position, or None.     *)
(***************************************************************************)
Occurrences(t, lit) == {i \in 1..(Len(t) - 1) : SubSeq(t, i, i + 1) = lit}

(* ([A-Z]\d{4}/\d{2}) : group(1) *)
notam_id_match(t) ==
    LET hits == {i \in 1..(Len(t) - 7) :
                    /\ Ch(t, i) \in UpperLetters /\ AllIn(t, i + 1, i + 4, Digits)
                    /\ Ch(t, i + 5) = "/" /\ AllIn(t, i + 6, i + 7, Digits)}
    IN IF hits = {} THEN None ELSE Some(SubSeq(t, Min(hits), Min(hits) + 7))

(* A\)\s*([A-Z]{4}) : group(1) *)
a_match(t) ==
    LET hits == {i \in Occurrences(t, "A)") :
                    AllIn(t, SkipWs(t, i + 2), SkipWs(t, i + 2) + 3, UpperLetters)}
    IN IF hits = {} THEN None
       ELSE Some(SubSeq(t, SkipWs(t, Min(hits) + 2), SkipWs(t, Min(hits) + 2) + 3))

(* B\)\s*(\d{10}) : group(1) *)
b_match(t) ==
    LET hits == {i \in Occurrences(t, "B)") :
                    AllIn(t, SkipWs(t, i + 2), SkipWs(t, i + 2) + 9, Digits)}
    IN IF hits = {} THEN None
       ELSE Some(SubSeq(t, SkipWs(t, Min(hits) + 2), SkipWs(t, Min(hits) + 2) + 9))

(* C\)\s*(\d{10}|PERM) without re.IGNORECASE *)
c_match_case_sensitive(t) ==
    LET IsDate(p) == AllIn(t, p, p + 9, Digits)
        IsPerm(p) == p + 3 <= Len(t) /\ SubSeq(t, p, p + 3) = "PERM"
        hits == {i \in Occurrences(t, "C)") :
                    IsDate(SkipWs(t, i + 2)) \/ IsPerm(SkipWs(t, i + 2))}
        p == SkipWs(t, Min(hits) + 2)
    IN IF hits = {} THEN None
       ELSE IF IsDate(p) THEN Some(SubSeq(t, p, p + 9))
       ELSE Some(SubSeq(t, p, p + 3))

(* C\)\s*(\d{10}|PERM) with re.IGNORECASE : group(1) *)
c_match(t) ==
    LET IsDate(p) == AllIn(t, p, p + 9, Digits)
        IsPerm(p) == p + 3 <= Len(t) /\ Upper(SubSeq(t, p, p + 3)) = "PERM"
        hits == {i \in Occurrences(t, "C)") \cup Occurrences(t, "c)") :
                    IsDate(SkipWs(t, i + 2)) \/ IsPerm(SkipWs(t, i + 2))}
        p == SkipWs(t, Min(hits) + 2)
    IN IF hits = {} THEN None
       ELSE IF IsDate(p) THEN Some(SubSeq(t, p, p + 9))
       ELSE Some(SubSeq(t, p, p + 3))

(* E\)\s*(.+?)(?=[A-G]\)|$) with re.DOTALL : group(1) *)
e_match(t) ==
    LET n == Len(t)
        hits == {i \in Occurrences(t, "E)") : i + 2 <= n}
        i0 == Min(hits)
        p == SkipWs(t, i0 + 2)
        (* the lookahead (?=[A-G]\)|$) at position q *)
        Ahead(q) == \/ (Ch(t, q) \in {"A", "B", "C", "D", "E", "F", "G"} /\ Ch(t, q + 1) = ")")
                    \/ q = n + 1
                    \/ (q = n /\ Ch(t, n) = "\n")
        stop == Min({q \in (p + 1)..(n + 1) : Ahead(q)})
    IN IF hits = {} THEN None
       ELSE IF p > n THEN Some(Ch(t, n))     \* \s* gives back its last character
       ELSE Some(SubSeq(t, p, stop - 1))

(* Q\)\s*([^\n]+) : [start |-> start of group(0), from |-> start of group(1), to |-> end] *)
q_match(t) ==
    LET n == Len(t)
        (* where group(1) starts for the "Q)" at i, 0 when there is no match at i *)
        From(i) == LET p == SkipWs(t, i + 2)
                       back == {k \in (i + 2)..n : Ch(t, k) # "\n"}
                   IN IF p <= n THEN p
                      ELSE IF back = {} THEN 0 ELSE Max(back)
        hits == {i \in Occurrences(t, "Q)") : From(i) # 0}
        i0 == Min(hits)
        nl == {k \in From(i0)..n : Ch(t, k) = "\n"}
    IN IF hits = {} THEN None
       ELSE Some([start |-> i0, from |-> From(i0),
                  to |-> IF nl = {} THEN n ELSE Min(nl) - 1])

(* (\d{4}[NS]\d{5}[EW]) : group(1) *)
coord_match(t) ==
    LET hits == {i \in 1..(Len(t) - 10) :
                    /\ AllIn(t, i, i + 3, Digits) /\ Ch(t, i + 4) \in {"N", "S"}
                    /\ AllIn(t, i + 5, i + 9, Digits) /\ Ch(t, i + 10) \in {"E", "W"}}
    IN IF hits = {} THEN None ELSE Some(SubSeq(t, Min(hits), Min(hits) + 10))

(***************************************************************************)
(* parse_notam_text                                                        *)
(***************************************************************************)
AIRSPACE_TYPE_RESTRICTION == "airspace_restriction"
AIRSPACE_TYPE_CLOSURE == "airport_closure"
AIRSPACE_TYPE_HAZARD == "hazard_notice"
AIRSPACE_TYPE_TEMPORARY == "temporary_restriction"
AIRSPACE_TYPE_WARNING == "warning_area"

LowerCh(c) ==
    IF \E k \in 1..26 : Ch(UpperAlphabet, k) = c
    THEN Ch(LowerAlphabet, CHOOSE k \in 1..26 : Ch(UpperAlphabet, k) = c)
    ELSE c

IsLetter(c) == c # "" /\ (c \in UpperLetters \/ UpperCh(c) # c)

(* str.replace(a, b) for single characters *)
RECURSIVE ReplaceCh(_, _, _)
ReplaceCh(t, a, b) ==
    IF t = "" THEN ""
    ELSE (IF Ch(t, 1) = a THEN b ELSE Ch(t, 1)) \o ReplaceCh(SubSeq(t, 2, Len(t)), a, b)

(* str.title(): a letter after a letter is lowered, any other letter is raised *)
RECURSIVE TitleFrom(_, _)
TitleFrom(t, k) ==
    IF k > Len(t) THEN ""
    ELSE (IF IsLetter(Ch(t, k - 1)) THEN LowerCh(Ch(t, k)) ELSE UpperCh(Ch(t, k)))
         \o TitleFrom(t, k + 1)

Title(t) == TitleFrom(t, 1)

(* outcome of a call: a returned value or a raised exception *)
Return(v) == [out |-> "return", value |-> v]
Raise(e) == [out |-> "raise", exc |-> e]

(* the classification testing the markers in the opposite order *)
classify_reversed(codes) ==
    IF Contains(codes, "RTC") \/ Contains(codes, "RRC") \/ Contains(codes, "RPC")
         THEN AIRSPACE_TYPE_TEMPORARY
    ELSE IF Contains(codes, "RDC") THEN AIRSPACE_TYPE_HAZARD
    ELSE IF Contains(codes, "WPL") \/ Contains(codes, "WRL") THEN AIRSPACE_TYPE_WARNING
    ELSE IF Contains(codes, "FAL") \/ Contains(codes, "FAX") THEN AIRSPACE_TYPE_CLOSURE
    ELSE AIRSPACE_TYPE_RESTRICTION

(* the qualifier-codes classification of parse_notam_text *)
classify(codes) ==
    IF Contains(codes, "FAL") \/ Contains(codes, "FAX") THEN AIRSPACE_TYPE_CLOSURE
    ELSE IF Contains(codes, "WPL") \/ Contains(codes, "WRL") THEN AIRSPACE_TYPE_WARNING
    ELSE IF Contains(codes, "RDC") THEN AIRSPACE_TYPE_HAZARD
    ELSE IF Contains(codes, "RTC") \/ Contains(codes, "RRC") \/ Contains(codes, "RPC")
         THEN AIRSPACE_TYPE_TEMPORARY
    ELSE AIRSPACE_TYPE_RESTRICTION

(* the bare-coordinate fallback on q_data, cm being the match of the coordinate pattern *)
coordinate_fallback(q_data, cm, coords) ==
    IF ~Truthy(Get(q_data, "lat", None)) /\ cm # None /\ coords # None
    THEN Put(Put(Put(q_data, "lat", Some(Val(coords).lat)),
                 "lon", Some(Val(coords).lon)),
             "radius_nm", Some(DefaultRadiusNm))
    ELSE q_data

coordinates_of(cm) == IF cm # None THEN parse_icao_coordinates(Val(cm)) ELSE None

q_line_of(notam_text, qm) ==
    IF qm # None THEN parse_q_line(SubSeq(notam_text, Val(qm).from, Val(qm).to)) ELSE << >>

(* q_data after the Q-line decode and the bare-coordinate fallback: a dict *)
extract_q_data(notam_text) ==
    coordinate_fallback(q_line_of(notam_text, q_match(notam_text)),
                        coord_match(notam_text),
                        coordinates_of(coord_match(notam_text)))

(* the record built from the extracted fields *)
event_of_fields(notam_text, idm, am, em, qm, q_data, ts_start, ts_end, is_permanent) ==
    LET codes == Get(q_data, "codes", Some(""))
        airspace_type == classify(Val(codes))
        location == IF am # None THEN Val(am) ELSE "Unknown"
        description == IF em # None THEN Strip(Val(em)) ELSE Prefix(notam_text, 500)
        title == "NOTAM: " \o location \o " - " \o Title(ReplaceCh(airspace_type, "_", " "))
    IN IF ~Truthy(Get(q_data, "lat", None)) \/ ~Truthy(Get(q_data, "lon", None))
       THEN Return(None)
       ELSE IF codes = None THEN Raise("TypeError")            \* 'FAL' in None
       ELSE IF ts_start = None THEN Raise("ValidationError")   \* ts_start: datetime
       ELSE Return(Some(
              [ts_start |-> Val(ts_start),
               ts_end |-> ts_end,
               is_permanent |-> is_permanent,
               center_lat |-> Val(q_data["lat"]),
               center_lon |-> Val(q_data["lon"]),
               radius_nm |-> Get(q_data, "radius_nm", Some(DefaultRadiusNm)),
               lower_limit |-> Val(Get(q_data, "lower", Some(0))),
               upper_limit |-> Val(Get(q_data, "upper", Some(999))),
               airspace_type |-> airspace_type,
               source |-> "notam",
               notam_id |-> idm,
               title |-> title,
               description |-> Prefix(description, 1000),
               raw_text |-> Prefix(notam_text, 2000),
               q_line |-> IF qm # None
                          THEN Some(SubSeq(notam_text, Val(qm).start, Val(qm).to))
                          ELSE None,
               fir |-> Get(q_data, "fir", None),
               notam_codes |-> codes]))

(* ts_start, ts_end and is_permanent from the B) and C) matches *)
start_of(bm, now) == IF bm # None THEN parse_notam_datetime(Val(bm)) ELSE Some(now)
end_of(cm) == IF cm # None THEN parse_notam_datetime(Val(cm)) ELSE None

(* permanent whenever a C) field was matched *)
permanent_of_any_end(cm) == cm # None

permanent_of(cm) == cm # None /\ Upper(Val(cm)) = "PERM"

(* Return(None), Return(Some(AirspaceEventCreate)) or Raise(exception) *)
parse_notam_text(notam_text, now) ==
    IF notam_text = "" THEN Return(None)
    ELSE event_of_fields(notam_text,
                         notam_id_match(notam_text), a_match(notam_text),
                         e_match(notam_text), q_match(notam_text),
                         extract_q_data(notam_text),
                         start_of(b_match(notam_text), now),
                         end_of(c_match(notam_text)),
                         permanent_of(c_match(notam_text)))

(***************************************************************************)
(* Notice blocks fed to the parser.  A block is laid out as the notices of *)
(* get_sample_notams are: identifier line, Q), A), B), C) and E) lines;    *)
(* an absent field (None) leaves its line out.                             *)
(***************************************************************************)
Line(label, field) == IF field = None THEN "" ELSE label \o Val(field) \o "\n"

NoticeText(n) ==
    Line("", IF n.id = None THEN None ELSE Some(Val(n.id) \o " NOTAMN"))
    \o Line("Q) ", n.q) \o Line("A) ", n.a) \o Line("B) ", n.b)
    \o Line("C) ", n.c) \o Line("E) ", n.e)

(* Q) FIR/QCODE/TRAFFIC/PURPOSE/SCOPE/LOWER/UPPER/COORDS *)
QLine(fir, codes, lower, upper, coords) ==
    fir \o "/" \o codes \o "/IV/NBO/W/" \o lower \o "/" \o upper \o "/" \o coords

Notice(id, q, a, b, c, e) == [id |-> id, q |-> q, a |-> a, b |-> b, c |-> c, e |-> e]

(***************************************************************************)
(* create_circle_polygon.  Vertices are (lon, lat) pairs in units of 1/1000 *)
(* degree; trigonometric values are fixed-point numbers scaled by TrigScale. *)
(***************************************************************************)
TrigScale == 10000
NumPoints == 32

(* sin(k * pi / 16) * TrigScale for k = 0..8 *)
SinTable == << 0, 1951, 3827, 5556, 7071, 8315, 9239, 9808, 10000 >>

(* math.sin(2 * pi * i / 32) *)
Sin32(i) ==
    LET k == i % 32
    IN IF k <= 8 THEN SinTable[k + 1]
       ELSE IF k <= 16 THEN SinTable[16 - k + 1]
       ELSE IF k <= 24 THEN 0 - SinTable[k - 16 + 1]
       ELSE 0 - SinTable[32 - k + 1]

(* math.cos(2 * pi * i / 32) *)
Cos32(i) == Sin32(i + 8)

(* the Taylor series of cos, term k being (-1)^k x^(2k) / (2k)! *)
RECURSIVE CosSeries(_, _, _)
CosSeries(x2, term, k) ==
    IF k > 8 \/ term = 0 THEN 0
    ELSE term + CosSeries(x2, (0 - (term * x2)) \div (TrigScale * (2 * k + 1) * (2 * k + 2)), k + 1)

(* math.cos(math.radians(lat)) for lat in arc-minutes *)
CosLat(lat_min) ==
    LET x == (lat_min * 29089) \div 10000           \* radians * TrigScale
        x2 == (x * x) \div TrigScale
    IN CosSeries(x2, TrigScale, 0)

(* degrees * 1000 of a coordinate kept in arc-minutes *)
MilliDeg(arc_min) == (arc_min * 50) \div 3

(* the ring left open: points.append(points[0]) left out *)
create_circle_polygon_open(center_lat, center_lon, radius_nm) ==
    LET radius_lat == (radius_nm * 1852) \div 111
        c == CosLat(center_lat)
        radius_lon == (radius_lat * TrigScale) \div (IF c = 0 THEN 1 ELSE c)
    IN [i \in 1..NumPoints |->
          << MilliDeg(center_lon) + (radius_lon * Cos32(i - 1)) \div TrigScale,
             MilliDeg(center_lat) + (radius_lat * Sin32(i - 1)) \div TrigScale >>]

create_circle_polygon(center_lat, center_lon, radius_nm) ==
    LET radius_lat == (radius_nm * 1852) \div 111              \* radius_km / 111.0
        c == CosLat(center_lat)
        radius_lon == (radius_lat * TrigScale) \div (IF c = 0 THEN 1 ELSE c)
        points == [i \in 1..NumPoints |->
                     << MilliDeg(center_lon) + (radius_lon * Cos32(i - 1)) \div TrigScale,
                        MilliDeg(center_lat) + (radius_lat * Sin32(i - 1)) \div TrigScale >>]
    IN Append(points, points[1])

(***************************************************************************)
(* Time                                                                    *)
(***************************************************************************)
DtLeq(a, b) == DtKey(a) <= DtKey(b)
DtLt(a, b) == DtKey(a) < DtKey(b)

(* d + timedelta(days=k) *)
RECURSIVE AddDays(_, _)
AddDays(d, k) ==
    IF k = 0 THEN d
    ELSE IF d.day < DaysInMonth(d.year, d.month)
         THEN AddDays([d EXCEPT !.day = d.day + 1], k - 1)
    ELSE IF d.month < 12
         THEN AddDays([d EXCEPT !.day = 1, !.month = d.month + 1], k - 1)
    ELSE AddDays([d EXCEPT !.day = 1, !.month = 1, !.year = d.year + 1], k - 1)

(* two decimal digits, as %y %m %d of strftime *)
Fmt2(n) == Ch("0123456789", ((n % 100) \div 10) + 1) \o Ch("0123456789", (n % 10) + 1)

(* d.strftime("%y%m%d") \o hhmm *)
Strftime(d, hhmm) == Fmt2(d.year) \o Fmt2(d.month) \o Fmt2(d.day) \o hhmm

get_sample_notams(now) ==
    LET start_time == Strftime(now, "0000")
        end_time_24h == Strftime(AddDays(now, 1), "2359")
        end_time_48h == Strftime(AddDays(now, 2), "2359")
        end_time_72h == Strftime(AddDays(now, 3), "2359")
    IN <<
           "\n"
           \o "        A0123/25 NOTAMN\n"
           \o "        Q) OIIX/QRTCA/IV/NBO/W/000/120/3541N05124E025\n"
           \o "        A) OIII\n"
           \o "        B) "
           \o start_time
           \o "\n"
           \o "        C) "
           \o end_time_48h
           \o "\n"
           \o "        E) TEMPORARY RESTRICTED AREA ACTIVATED DUE TO VIP MOVEMENT.\n"
           \o "        AREA: 25NM RADIUS CENTERED ON 3541N05124E (TEHRAN MEHRABAD).\n"
           \o "        ALTITUDES: SFC TO FL120.\n"
           \o "        ",
           "\n"
           \o "        A0124/25 NOTAMN\n"
           \o "        Q) OIIX/QRDCA/IV/BO/W/000/150/3629N04611E015\n"
           \o "        A) OITT\n"
           \o "        B) "
           \o start_time
           \o "\n"
           \o "        C) "
           \o end_time_72h
           \o "\n"
           \o "        E) DANGER AREA D-IR-1 ACTIVATED.\n"
           \o "        MILITARY EXERCISES IN PROGRESS.\n"
           \o "        AREA: 15NM RADIUS CENTERED ON TABRIZ.\n"
           \o "        ",
           "\n"
           \o "        A0125/25 NOTAMN\n"
           \o "        Q) OIIX/QFALC/IV/NBO/A/000/999/3239N05240E005\n"
           \o "        A) OIFM\n"
           \o "        B) "
           \o start_time
           \o "\n"
           \o "        C) "
           \o end_time_24h
           \o "\n"
           \o "        E) ESFAHAN SHAHID BEHESHTI INTL AIRPORT CLOSED FOR RUNWAY MAINTENANCE.\n"
           \o "        ",
           "\n"
           \o "        A0126/25 NOTAMN\n"
           \o "        Q) OIIX/QWPLW/IV/NBO/W/000/200/2958N05234E020\n"
           \o "        A) OISS\n"
           \o "        B) "
           \o start_time
           \o "\n"
           \o "        C) "
           \o end_time_48h
           \o "\n"
           \o "        E) WARNING AREA ACTIVATED OVER SHIRAZ REGION.\n"
           \o "        UNMANNED AIRCRAFT OPERATIONS IN PROGRESS.\n"
           \o "        AREA: 20NM RADIUS CENTERED ON SHIRAZ.\n"
           \o "        ",
           "\n"
           \o "        A0127/25 NOTAMN\n"
           \o "        Q) OIIX/QRTCA/IV/NBO/W/000/100/3626N05925E010\n"
           \o "        A) OIMM\n"
           \o "        B) "
           \o start_time
           \o "\n"
           \o "        C) PERM\n"
           \o "        E) PERMANENT RESTRICTED AREA OVER MASHHAD HOLY SHRINE.\n"
           \o "        NO OVERFLIGHT PERMITTED BELOW FL100.\n"
           \o "        "
       >>

(***************************************************************************)
(* The airspace_events table and the sessions working on it                *)
(***************************************************************************)
MaxTexts == 2
MaxCalls == 2
MaxTicks == 2

Sessions == {"s1", "s2"}

StartTime == [year |-> 2025, month |-> 1, day |-> 12, hour |-> 0, minute |-> 0]

VARIABLES
    tick,       \* the clock: datetime.now() is StartTime + (tick - 1) days
    store,      \* committed rows of airspace_events
    next_id,    \* the serial sequence of airspace_events.id
    calls,      \* handler calls started so far
    handed,     \* text blocks handed to parse_and_store so far, the samples aside
    pc,         \* per session: "idle", "loop" (inside parse_and_store), "fetch" (refresh, after the delete)
    op,         \* per session: the caller of the running parse_and_store
    batch,      \* per session: notam_texts
    idx,        \* per session: position of the for loop in notam_texts
    pending,    \* per session: objects added to the session, not yet flushed
    count,      \* per session: the local count of parse_and_store
    ret,        \* the last finished call: its session, operation, arguments and outcome
    notice,     \* function runs: the argument handed to the function (a block for parse_notam_text)
    parsed      \* function runs: the outcome of the function

vars == << tick, store, next_id, calls, handed, pc, op, batch, idx, pending, count, ret, notice, parsed >>

(* datetime.now(timezone.utc) at clock position k *)
TimeAt(k) == AddDays(StartTime, k - 1)

Now == TimeAt(tick)

NoResult == [out |-> "none"]

(* notices of the store runs *)
TehranQ == QLine("OIIX", "QRTCA", "000", "120", "3541N05124E025")

(* ends at the first clock position: in force there, expired at the second *)
NoticeTehran ==
    Notice(Some("A0123/25"), Some(TehranQ), Some("OIII"),
           Some("2501110000"), Some("2501120000"), Some("TEMPO RESTRICTED AREA"))

(* the same identifier on another text: permanent, starts at the second clock position *)
NoticeTehranClosed ==
    Notice(Some("A0123/25"), Some(QLine("OIXX", "QFALC", "000", "999", "3541N05124E005")),
           Some("OIII"), Some("2501130000"), Some("PERM"), Some("AD CLSD"))

(* no identifier, no C) field *)
NoticeNoEnd ==
    Notice(None, Some(QLine("OIXX", "QWPLW", "000", "200", "2958N05234E020")),
           Some("OISS"), Some("2501120000"), None, Some("WARNING AREA"))

(* no Q-line and no coordinate pattern *)
NoticeNoCoords ==
    Notice(Some("A0131/25"), None, Some("OIII"),
           Some("2501120000"), Some("2501140000"), Some("RWY CLSD"))

(* B) is not a date: AirspaceEventCreate raises *)
NoticeBadStart ==
    Notice(Some("A0133/25"), Some(TehranQ), Some("OIII"),
           Some("2513120000"), Some("PERM"), Some("RESTRICTED"))

StoreNotices ==
    {NoticeTehran, NoticeTehranClosed, NoticeNoEnd, NoticeNoCoords, NoticeBadStart}

StoreTexts == {NoticeText(n) : n \in StoreNotices}

(* radius digits 000 *)
NoticeZeroRadius ==
    Notice(Some("A0141/25"), Some(QLine("OIIX", "QRTCA", "000", "120", "3541N05124E000")),
           Some("OIII"), Some("2501120000"), Some("2501140000"), Some("TEMPO RESTRICTED AREA"))

(* a signed token in the radius position *)
NoticeNegativeRadius ==
    Notice(Some("A0142/25"), Some(QLine("OIIX", "QRTCA", "000", "120", "3541N05124E-12")),
           Some("OIII"), Some("2501120000"), Some("2501140000"), Some("TEMPO RESTRICTED AREA"))

(* limit positions outside 0..999 *)
NoticeWideLimits ==
    Notice(Some("A0143/25"), Some(QLine("OIIX", "QRTCA", "-10", "1500", "3541N05124E025")),
           Some("OIII"), Some("2501120000"), Some("2501140000"), Some("TEMPO RESTRICTED AREA"))

(* a point token with degree digits 99 / 199 and minute digits 75 / 99 *)
NoticeOutOfRange ==
    Notice(Some("A0144/25"), Some(QLine("OIIX", "QRTCA", "000", "120", "9975N19999E025")),
           Some("OIII"), Some("2501120000"), Some("2501140000"), Some("TEMPO RESTRICTED AREA"))

(* notices of the runs that ingest and project *)
IngestNotices ==
    {NoticeTehran, NoticeTehranClosed, NoticeZeroRadius, NoticeNegativeRadius, NoticeWideLimits,
     NoticeOutOfRange}

IngestTexts == {NoticeText(n) : n \in IngestNotices}

SeqsUpTo(S, n) == UNION {[1..k -> S] : k \in 0..n}

(* lists of raw text blocks handed to parse_and_store *)
Batches == SeqsUpTo(StoreTexts, MaxTexts)

IngestBatches == SeqsUpTo(IngestTexts, MaxTexts)

(* fetch_iran_notams returns list(set(all_notams)): no text twice *)
FetchResults == {b \in Batches : \A i, j \in 1..Len(b) : i # j => b[i] # b[j]}

(* the lists two sessions working at the same time are handed *)
SharedTexts == {NoticeText(NoticeTehran), NoticeText(NoticeTehranClosed)}

SharedBatches == SeqsUpTo(SharedTexts, MaxTexts)

SharedFetchResults == {b \in SharedBatches : \A i, j \in 1..Len(b) : i # j => b[i] # b[j]}

FirFilters == {None, Some(""), Some("OIIX"), Some("OIXX")}

Range(f) == {f[i] : i \in DOMAIN f}

(* every text a run can hand to the parser, and the table of parse_notam_text *)
(* over them: the parser is a pure function of the text and the clock       *)
AllTexts == StoreTexts \cup IngestTexts \cup UNION {Range(get_sample_notams(TimeAt(k))) : k \in 1..MaxTicks}

ParseTable == [t \in AllTexts, k \in 1..MaxTicks |-> parse_notam_text(t, TimeAt(k))]

(* models.AirspaceEvent(...): the object built from event_data, before the flush *)
db_event(event_data) ==
    [ts_start |-> event_data.ts_start,
     ts_end |-> event_data.ts_end,
     is_permanent |-> event_data.is_permanent,
     geometry |-> IF event_data.center_lat # 0 /\ event_data.center_lon # 0
                     /\ Truthy(event_data.radius_nm)
                  THEN Some(create_circle_polygon(event_data.center_lat, event_data.center_lon,
                                                  Val(event_data.radius_nm)))
                  ELSE None,
     center_lat |-> event_data.center_lat,
     center_lon |-> event_data.center_lon,
     radius_nm |-> event_data.radius_nm,
     lower_limit |-> event_data.lower_limit,
     upper_limit |-> event_data.upper_limit,
     airspace_type |-> event_data.airspace_type,
     source |-> event_data.source,
     notam_id |-> event_data.notam_id,
     title |-> event_data.title,
     description |-> event_data.description,
     raw_text |-> event_data.raw_text,
     q_line |-> event_data.q_line,
     fir |-> event_data.fir,
     notam_codes |-> event_data.notam_codes]

(* the INSERT of the flush: the row gets its id and the server default created_at *)
InsertedRow(obj, id, now) ==
    [k \in DOMAIN obj \cup {"id", "created_at", "updated_at"} |->
        IF k = "id" THEN id
        ELSE IF k = "created_at" THEN now
        ELSE IF k = "updated_at" THEN None
        ELSE obj[k]]

(* db_event for every text and clock position whose parse gives a record *)
EventTable ==
    [t \in AllTexts, k \in 1..MaxTicks |->
        IF ParseTable[t, k].out = "return" /\ ParseTable[t, k].value # None
        THEN Some(db_event(Val(ParseTable[t, k].value)))
        ELSE None]

(* SessionLocal = sessionmaker(autocommit=False, autoflush=False): a query *)
(* sees the committed rows only, never the session's own pending objects   *)
QueryVisible(s) == store

(* the duplicate query filtering on the wrong column *)
existing_by_title(s, notam_id) == {r \in QueryVisible(s) : r.title = notam_id}

(* db.query(AirspaceEvent).filter(AirspaceEvent.notam_id == notam_id).first() *)
existing(s, notam_id) == {r \in QueryVisible(s) : r.notam_id = Some(notam_id)}

(* notam_id declared without unique=True *)
no_unique_constraint(rows, k) == FALSE

(* UNIQUE (notam_id): row k of the flush collides with a committed row or an earlier row *)
UniqueViolation(rows, k) ==
    /\ rows[k].notam_id # None
    /\ \/ \E r \in store : r.notam_id = rows[k].notam_id
       \/ \E j \in 1..(k - 1) : rows[j].notam_id = rows[k].notam_id

(***************************************************************************)
(* NOTAMService.parse_and_store                                            *)
(***************************************************************************)
(* entry: count = 0 and the for loop starts *)
EnterLoop(s, caller, texts) ==
    /\ ret' = ret
    /\ pc' = [pc EXCEPT ![s] = "loop"]
    /\ op' = [op EXCEPT ![s] = caller]
    /\ batch' = [batch EXCEPT ![s] = texts]
    /\ idx' = [idx EXCEPT ![s] = 1]
    /\ pending' = [pending EXCEPT ![s] = << >>]
    /\ count' = [count EXCEPT ![s] = 0]

(* what a finished call leaves to be observed *)
Finished(s, name, args, outcome) ==
    [session |-> s, op |-> name, args |-> args, outcome |-> outcome]

(* the call returns or raises: the session goes back to idle *)
Leave(s, outcome) ==
    /\ pc' = [pc EXCEPT ![s] = "idle"]
    /\ op' = [op EXCEPT ![s] = "none"]
    /\ batch' = [batch EXCEPT ![s] = << >>]
    /\ idx' = [idx EXCEPT ![s] = 1]
    /\ pending' = [pending EXCEPT ![s] = << >>]
    /\ count' = [count EXCEPT ![s] = 0]
    /\ ret' = Finished(s, op[s], batch[s], outcome)

(* submit_notam and any other direct caller: service.parse_and_store(texts) *)
parse_and_store(s, texts) ==
    /\ pc[s] = "idle"
    /\ calls < MaxCalls
    /\ calls' = calls + 1
    /\ handed + Len(texts) <= MaxTexts
    /\ handed' = handed + Len(texts)
    /\ EnterLoop(s, "parse_and_store", texts)
    /\ UNCHANGED << tick, store, next_id, notice, parsed >>

(* the body of "for text in notam_texts" on one text: the object to add, or nothing *)
parse_and_store_body(s, text) ==
    LET res == ParseTable[text, tick]                            \* parse_notam_text(text)
        event_data == Val(res.value)
    IN IF res.out = "raise" THEN None                            \* except Exception: continue
       ELSE IF res.value = None THEN None                        \* if not event_data: continue
       ELSE IF /\ event_data.notam_id # None
               /\ Val(event_data.notam_id) # ""
               /\ existing(s, Val(event_data.notam_id)) # {}
            THEN None                                            \* if existing: continue
       ELSE EventTable[text, tick]                               \* db_event = models.AirspaceEvent(...)

(* the loop counting every text it is handed, stored or not *)
parse_and_store_block_counting_all(s) ==
    /\ pc[s] = "loop"
    /\ idx[s] <= Len(batch[s])
    /\ LET added == parse_and_store_body(s, batch[s][idx[s]])
       IN /\ pending' = [pending EXCEPT ![s] = IF added = None THEN @ ELSE Append(@, Val(added))]
          /\ count' = [count EXCEPT ![s] = @ + 1]
    /\ idx' = [idx EXCEPT ![s] = @ + 1]
    /\ UNCHANGED << calls, handed, tick, store, next_id, pc, op, batch, ret, notice, parsed >>

(* one iteration of the loop *)
parse_and_store_block(s) ==
    /\ pc[s] = "loop"
    /\ idx[s] <= Len(batch[s])
    /\ LET added == parse_and_store_body(s, batch[s][idx[s]])
       IN /\ pending' = [pending EXCEPT ![s] = IF added = None THEN @ ELSE Append(@, Val(added))]
          /\ count' = [count EXCEPT ![s] = IF added = None THEN @ ELSE @ + 1]
    /\ idx' = [idx EXCEPT ![s] = @ + 1]
    /\ UNCHANGED << calls, handed, tick, store, next_id, pc, op, batch, ret, notice, parsed >>

(* the commit writing only the first object of the session *)
parse_and_store_commit_first_only(s) ==
    /\ pc[s] = "loop"
    /\ idx[s] > Len(batch[s])
    /\ LET n == Len(pending[s])
           rows == [k \in 1..n |-> InsertedRow(pending[s][k], next_id + k - 1, Now)]
           failing == {k \in 1..n : UniqueViolation(rows, k)}
       IN IF failing # {}
          THEN /\ store' = store
               /\ next_id' = next_id + Min(failing)
               /\ Leave(s, Raise("IntegrityError"))
          ELSE /\ store' = store \cup {rows[k] : k \in 1..(IF n > 1 THEN 1 ELSE n)}
               /\ next_id' = next_id + n
               /\ IF op[s] = "fetch_real_notams" /\ count[s] = 0
                  THEN EnterLoop(s, "load_sample_notams", get_sample_notams(Now))
                  ELSE Leave(s, Return(count[s]))
    /\ UNCHANGED << calls, handed, tick, notice, parsed >>

(* self.db.commit() after the loop, and the return to the caller *)
parse_and_store_commit(s) ==
    /\ pc[s] = "loop"
    /\ idx[s] > Len(batch[s])
    /\ LET n == Len(pending[s])
           rows == [k \in 1..n |-> InsertedRow(pending[s][k], next_id + k - 1, Now)]
           failing == {k \in 1..n : UniqueViolation(rows, k)}
       IN IF failing # {}
          THEN (* IntegrityError: the transaction is rolled back, the sequence is not *)
               /\ store' = store
               /\ next_id' = next_id + Min(failing)
               /\ Leave(s, Raise("IntegrityError"))
          ELSE /\ store' = store \cup {rows[k] : k \in 1..n}
               /\ next_id' = next_id + n
               /\ IF op[s] = "fetch_real_notams" /\ count[s] = 0
                  THEN (* fetch_real_notams: nothing parsed, load_sample_notams(db) *)
                       EnterLoop(s, "load_sample_notams", get_sample_notams(Now))
                  ELSE Leave(s, Return(count[s]))
    /\ UNCHANGED << calls, handed, tick, notice, parsed >>

(***************************************************************************)
(* NOTAMService.get_active_airspace and cleanup_expired                    *)
(***************************************************************************)
(* the filter with ts_end > now *)
IsActive_strict(r, now) ==
    /\ DtLeq(r.ts_start, now)
    /\ \/ (r.ts_end # None /\ DtLt(now, Val(r.ts_end)))
       \/ r.is_permanent = TRUE

(* the filter taking a NULL ts_end for an open end *)
IsActive_null_open(r, now) ==
    /\ DtLeq(r.ts_start, now)
    /\ \/ r.ts_end = None
       \/ DtLeq(now, Val(r.ts_end))
       \/ r.is_permanent = TRUE

(* the filter of get_active_airspace, with SQL's NULL comparisons *)
IsActive(r, now) ==
    /\ DtLeq(r.ts_start, now)
    /\ \/ (r.ts_end # None /\ DtLeq(now, Val(r.ts_end)))
       \/ r.is_permanent = TRUE

(* the query reading the objects other sessions have added and not committed *)
get_active_airspace_dirty(s, fir) ==
    /\ pc[s] = "idle"
    /\ calls < MaxCalls
    /\ calls' = calls + 1
    /\ LET seen == store \cup UNION {Range(pending[o]) : o \in Sessions}
           active == {r \in seen : IsActive(r, Now)}
           found == IF fir # None /\ Val(fir) # "" THEN {r \in active : r.fir = fir} ELSE active
       IN ret' = Finished(s, "get_active_airspace", fir, Return(found))
    /\ UNCHANGED << tick, store, next_id, handed, pc, op, batch, idx, pending, count, notice, parsed >>

(* the query stamping updated_at on the rows it reads *)
get_active_airspace_touching(s, fir) ==
    /\ pc[s] = "idle"
    /\ calls < MaxCalls
    /\ calls' = calls + 1
    /\ LET active == {r \in store : IsActive(r, Now)}
           found == IF fir # None /\ Val(fir) # "" THEN {r \in active : r.fir = fir} ELSE active
       IN /\ store' = (store \ found) \cup {[r EXCEPT !.updated_at = Some(Now)] : r \in found}
          /\ ret' = Finished(s, "get_active_airspace", fir, Return(found))
    /\ UNCHANGED << tick, next_id, handed, pc, op, batch, idx, pending, count, notice, parsed >>

get_active_airspace(s, fir) ==
    /\ pc[s] = "idle"
    /\ calls < MaxCalls
    /\ calls' = calls + 1
    /\ LET active == {r \in store : IsActive(r, Now)}
           found == IF fir # None /\ Val(fir) # ""      \* if fir:
                    THEN {r \in active : r.fir = fir}
                    ELSE active
       IN ret' = Finished(s, "get_active_airspace", fir, Return(found))
    /\ UNCHANGED << tick, store, next_id, handed, pc, op, batch, idx, pending, count, notice, parsed >>

(* the filter with ts_end <= now *)
IsExpired_inclusive(r, now) ==
    /\ r.is_permanent = FALSE
    /\ r.ts_end # None /\ DtLeq(Val(r.ts_end), now)

(* the filter taking a null ts_end for an end already passed *)
IsExpired_null_as_past(r, now) ==
    /\ r.is_permanent = FALSE
    /\ (r.ts_end = None \/ DtLt(Val(r.ts_end), now))

(* the filter of cleanup_expired *)
IsExpired(r, now) ==
    /\ r.is_permanent = FALSE
    /\ r.ts_end # None /\ DtLt(Val(r.ts_end), now)

cleanup_expired(s) ==
    /\ pc[s] = "idle"
    /\ calls < MaxCalls
    /\ calls' = calls + 1
    /\ LET expired == {r \in store : IsExpired(r, Now)}
       IN /\ store' = store \ expired
          /\ ret' = Finished(s, "cleanup_expired", << >>, Return(Cardinality(expired)))
    /\ UNCHANGED << tick, next_id, handed, pc, op, batch, idx, pending, count, notice, parsed >>

(***************************************************************************)
(* refresh_airspace, fetch_real_notams, load_sample_notams                 *)
(***************************************************************************)
(* db.query(models.AirspaceEvent).delete(); db.commit() *)
refresh_airspace(s) ==
    /\ pc[s] = "idle"
    /\ calls < MaxCalls
    /\ calls' = calls + 1
    /\ store' = {}
    /\ pc' = [pc EXCEPT ![s] = "fetch"]
    /\ op' = [op EXCEPT ![s] = "refresh_airspace"]
    /\ ret' = ret
    /\ UNCHANGED << tick, next_id, handed, batch, idx, pending, count, notice, parsed >>

(* fetch_real_notams(db), texts being what fetch_iran_notams got from the network *)
fetch_real_notams(s, texts) ==
    /\ pc[s] = "fetch"
    /\ handed + Len(texts) <= MaxTexts
    /\ handed' = handed + Len(texts)
    /\ IF texts = << >>
       THEN EnterLoop(s, "load_sample_notams", get_sample_notams(Now))
       ELSE EnterLoop(s, "fetch_real_notams", texts)
    /\ UNCHANGED << calls, tick, store, next_id, notice, parsed >>

(* load_sample_airspace: load_sample_notams(db) *)
load_sample_notams(s) ==
    /\ pc[s] = "idle"
    /\ calls < MaxCalls
    /\ calls' = calls + 1
    /\ EnterLoop(s, "load_sample_notams", get_sample_notams(Now))
    /\ UNCHANGED << tick, store, next_id, handed, notice, parsed >>

(* time passes *)
Tick ==
    /\ tick < MaxTicks
    /\ tick' = tick + 1
    /\ UNCHANGED << calls, handed, store, next_id, pc, op, batch, idx, pending, count, ret, notice, parsed >>

(***************************************************************************)
(* Specifications                                                          *)
(***************************************************************************)
Init ==
    /\ tick = 1
    /\ store = {}
    /\ next_id = 1
    /\ calls = 0
    /\ handed = 0
    /\ pc = [s \in Sessions |-> "idle"]
    /\ op = [s \in Sessions |-> "none"]
    /\ batch = [s \in Sessions |-> << >>]
    /\ idx = [s \in Sessions |-> 1]
    /\ pending = [s \in Sessions |-> << >>]
    /\ count = [s \in Sessions |-> 0]
    /\ ret = Finished("none", "none", << >>, NoResult)
    /\ notice = None
    /\ parsed = NoResult

(* two sessions working on the table at the same time *)
Next ==
    \/ \E s \in Sessions, texts \in SharedBatches : parse_and_store(s, texts)
    \/ \E s \in Sessions : parse_and_store_block(s)
    \/ \E s \in Sessions : parse_and_store_commit(s)
    \/ \E s \in Sessions : cleanup_expired(s)
    \/ \E s \in Sessions : refresh_airspace(s)
    \/ \E s \in Sessions, texts \in SharedFetchResults : fetch_real_notams(s, texts)
    \/ Tick

Spec == Init /\ [][Next]_vars

(* one session: every call runs to its end before the next one starts *)
NextSerial ==
    \/ \E texts \in Batches : parse_and_store("s1", texts)
    \/ parse_and_store_block("s1")
    \/ parse_and_store_commit("s1")
    \/ \E fir \in FirFilters : get_active_airspace("s1", fir)
    \/ cleanup_expired("s1")
    \/ refresh_airspace("s1")
    \/ \E texts \in FetchResults : fetch_real_notams("s1", texts)
    \/ load_sample_notams("s1")
    \/ Tick

SpecSerial == Init /\ [][NextSerial]_vars

(***************************************************************************)
(* Parser runs: one block, drawn at the start, is handed to                *)
(* parse_notam_text at the clock position of the run                       *)
(***************************************************************************)
LatTokens == {"0000N", "0000S", "3541N", "3541S"}

LonTokens == {"00000E", "00000W", "05124E", "05124W"}

EndTokens == {"2501140000", "PERM"}

(* a Q-line whose eighth field is the point la lo followed by a radius of 025 *)
PointQ(la, lo) == QLine("OIIX", "QRTCA", "000", "120", la \o lo \o "025")

PointNotice(la, lo, c) ==
    Notice(Some("A0123/25"), Some(PointQ(la, lo)), Some("OIII"),
           Some("2501120000"), Some(c), Some("TEMPO RESTRICTED AREA"))

PointNotices == {PointNotice(la, lo, c) : la \in LatTokens, lo \in LonTokens, c \in EndTokens}

(* C) fields: absent, PERM in three letter cases, two dates, 30 February, a word *)
EndFields ==
    {None, Some("PERM"), Some("perm"), Some("Perm"),
     Some("2501120800"), Some("2412312359"), Some("2502300800"), Some("TBD")}

EndNotices ==
    {Notice(id, q, Some("OIII"), b, c, Some(e)) :
        id \in {None, Some("A0123/25")},
        q \in {None, Some(TehranQ)},
        b \in {None, Some("2501120000")},
        c \in EndFields,
        e \in {"TEMPO RESTRICTED AREA", "AREA CENTERED ON 2958N05234E"}}

(* blocks around the Q), B) and C) lines of the Tehran restricted area *)
ExampleNotices ==
    {Notice(id, Some(TehranQ), a, Some("2501120000"), Some("2501140000"), e) :
        id \in {None, Some("A0123/25")},
        a \in {None, Some("OIII")},
        e \in {None, Some("TEMPO RESTRICTED AREA")}}

(* qualifier codes with one marker, none, and several *)
CodeStrings ==
    {"QFALC", "QFAXX", "QWPLW", "QWRLW", "QRDCA", "QRTCA", "QRRCA", "QRPCA",
     "QXXXX", "", "qfalc",
     "RTCFAL", "WRLFAX", "RDCWPL", "RRCWRL", "RPCRDC", "RTCRDCWPLFAX"}

CodeNotice(codes) ==
    Notice(Some("A0123/25"), Some(QLine("OIIX", codes, "000", "120", "3541N05124E025")),
           Some("OIII"), Some("2501120000"), Some("2501140000"), Some("TEMPO RESTRICTED AREA"))

CodeNotices == {CodeNotice(codes) : codes \in CodeStrings}

(* no qualifier codes: no Q-line, or a Q-line of a single position; the point is in the E) text *)
NoCodeNotices ==
    {Notice(Some("A0123/25"), q, Some("OIII"), Some("2501120000"), c,
            Some("AREA CENTERED ON 2958N05234E")) :
        q \in {None, Some("OIIX")}, c \in {None, Some("2501140000")}}

(* no point in position 8 of the Q-line; a point may stand in an earlier position *)
(* of the Q-line, after the A) location, and in the E) text                      *)
FallbackNotices ==
    {Notice(Some("A0123/25"), Some(q), Some(a), Some("2501120000"), Some("2501140000"), Some(e)) :
        q \in {"OIIX/QRTCA", "OIIX/QRTCA/3541N05124E005"},
        a \in {"OIII", "OIII 3300N05000E"},
        e \in {"TEMPO RESTRICTED AREA", "AREA CENTERED ON 2958N05234E"}}

ParseNotices ==
    PointNotices \cup EndNotices \cup ExampleNotices \cup CodeNotices \cup NoCodeNotices
    \cup FallbackNotices

(* event_data = parse_notam_text(text) *)
parse_notam_text_call ==
    /\ parsed = NoResult
    /\ parsed' = parse_notam_text(NoticeText(notice), Now)
    /\ UNCHANGED << tick, store, next_id, calls, handed, pc, op, batch, idx, pending, count, ret, notice >>

InitParse ==
    /\ tick \in 1..MaxTicks
    /\ store = {}
    /\ next_id = 1
    /\ calls = 0
    /\ handed = 0
    /\ pc = [s \in Sessions |-> "idle"]
    /\ op = [s \in Sessions |-> "none"]
    /\ batch = [s \in Sessions |-> << >>]
    /\ idx = [s \in Sessions |-> 1]
    /\ pending = [s \in Sessions |-> << >>]
    /\ count = [s \in Sessions |-> 0]
    /\ ret = Finished("none", "none", << >>, NoResult)
    /\ notice \in ParseNotices
    /\ parsed = NoResult

NextParse == parse_notam_text_call

SpecParse == InitParse /\ [][NextParse]_vars

(***************************************************************************)
(* NOTAMService.to_geojson and the get_airspace endpoint                   *)
(***************************************************************************)
Fmt4(n) == Fmt2(n \div 100) \o Fmt2(n % 100)

(* datetime.isoformat() of a UTC datetime with zero seconds *)
Isoformat(d) ==
    Fmt4(d.year) \o "-" \o Fmt2(d.month) \o "-" \o Fmt2(d.day)
    \o "T" \o Fmt2(d.hour) \o ":" \o Fmt2(d.minute) \o ":00+00:00"

(* the geometry of a feature; a Point has the center as the row holds it *)
to_geojson_geometry(event) ==
    IF event.center_lat # 0 /\ event.center_lon # 0 /\ Truthy(event.radius_nm)
    THEN [type |-> "Polygon",
          coordinates |-> << create_circle_polygon(event.center_lat, event.center_lon,
                                                   Val(event.radius_nm)) >>]
    ELSE [type |-> "Point", coordinates |-> << event.center_lon, event.center_lat >>]

to_geojson_feature(event) ==
    [type |-> "Feature",
     geometry |-> to_geojson_geometry(event),
     properties |->
        [id |-> event.id,
         notam_id |-> event.notam_id,
         title |-> event.title,
         description |-> event.description,
         airspace_type |-> event.airspace_type,
         ts_start |-> Some(Isoformat(event.ts_start)),
         ts_end |-> IF event.ts_end # None THEN Some(Isoformat(Val(event.ts_end))) ELSE None,
         is_permanent |-> event.is_permanent,
         lower_limit |-> event.lower_limit,
         upper_limit |-> event.upper_limit,
         radius_nm |-> event.radius_nm,
         fir |-> event.fir,
         source |-> event.source]]

(* the features listed from the last row to the first *)
to_geojson_last_first(events) ==
    [type |-> "FeatureCollection",
     features |-> [i \in 1..Len(events) |-> to_geojson_feature(events[Len(events) + 1 - i])],
     count |-> Len(events)]

(* events is the list of rows, in the order the query gave them *)
to_geojson(events) ==
    [type |-> "FeatureCollection",
     features |-> [i \in 1..Len(events) |-> to_geojson_feature(events[i])],
     count |-> Len(events)]

(* the lists a query returning the rows of S can give: SQL fixes no order *)
Orderings(S) ==
    {o \in [1..Cardinality(S) -> S] : \A i, j \in 1..Cardinality(S) : i # j => o[i] # o[j]}

(* order_by(ts_start.desc()) *)
StartDescending(o) == \A i, j \in 1..Len(o) : i < j => DtLeq(o[j].ts_start, o[i].ts_start)

(* limit(100) *)
QueryLimit == 100

(* GET /api/airspace with fetch_new = false *)
get_airspace(s, fir, active_only) ==
    /\ pc[s] = "idle"
    /\ calls < MaxCalls
    /\ calls' = calls + 1
    /\ LET wanted == IF fir # None /\ Val(fir) # ""      \* if fir:
                     THEN {r \in store : r.fir = fir}
                     ELSE store
       IN \E events \in (IF active_only
                         THEN Orderings({r \in wanted : IsActive(r, Now)})
                         ELSE {SubSeq(o, 1, Min({Len(o), QueryLimit})) :
                                 o \in {x \in Orderings(wanted) : StartDescending(x)}}) :
            ret' = Finished(s, "get_airspace", << fir, active_only >>, Return(to_geojson(events)))
    /\ UNCHANGED << tick, store, next_id, handed, pc, op, batch, idx, pending, count, notice, parsed >>

(* one client ingesting, reading and sweeping *)
NextIngest ==
    \/ \E texts \in IngestBatches : parse_and_store("s1", texts)
    \/ parse_and_store_block("s1")
    \/ parse_and_store_commit("s1")
    \/ \E fir \in {None, Some("OIIX")}, active_only \in BOOLEAN : get_airspace("s1", fir, active_only)
    \/ get_active_airspace("s1", None)
    \/ cleanup_expired("s1")
    \/ Tick

SpecIngest == Init /\ [][NextIngest]_vars

(* a session ingesting while any session reads or sweeps *)
NextReadWrite ==
    \/ \E texts \in SharedBatches : parse_and_store("s1", texts)
    \/ parse_and_store_block("s1")
    \/ parse_and_store_commit("s1")
    \/ \E s \in Sessions : get_active_airspace(s, None)
    \/ \E s \in Sessions : cleanup_expired(s)
    \/ Tick

SpecReadWrite == Init /\ [][NextReadWrite]_vars

(***************************************************************************)
(* to_geojson on its own: notice holds the list of rows, parsed the result *)
(***************************************************************************)
(* the notices behind the rows: circle, point, negative radius, wide limits *)
StoredNotices == << NoticeTehran, NoticeZeroRadius, NoticeNegativeRadius, NoticeWideLimits >>

(* the row with id i, as parse_and_store inserts it *)
StoredRow(i) == InsertedRow(Val(EventTable[NoticeText(StoredNotices[i]), 1]), i, TimeAt(1))

(* every list of distinct stored rows, in every order *)
RecordLists ==
    {o \in SeqsUpTo({StoredRow(i) : i \in 1..Len(StoredNotices)}, Len(StoredNotices)) :
        \A i, j \in 1..Len(o) : i # j => o[i] # o[j]}

to_geojson_call ==
    /\ parsed = NoResult
    /\ parsed' = Return(to_geojson(notice))
    /\ UNCHANGED << tick, store, next_id, calls, handed, pc, op, batch, idx, pending, count, ret, notice >>

InitProject ==
    /\ tick = 1
    /\ store = {}
    /\ next_id = 1
    /\ calls = 0
    /\ handed = 0
    /\ pc = [s \in Sessions |-> "idle"]
    /\ op = [s \in Sessions |-> "none"]
    /\ batch = [s \in Sessions |-> << >>]
    /\ idx = [s \in Sessions |-> 1]
    /\ pending = [s \in Sessions |-> << >>]
    /\ count = [s \in Sessions |-> 0]
    /\ ret = Finished("none", "none", << >>, NoResult)
    /\ notice \in RecordLists
    /\ parsed = NoResult

NextProject == to_geojson_call

SpecProject == InitProject /\ [][NextProject]_vars

(***************************************************************************)
(* parse_q_line on its own: notice holds the parts of the line, parsed the   *)
(* dictionary returned                                                      *)
(***************************************************************************)
(* the digits after the point in position 8: none, one, two, three *)
RadiusDigits == {"", "7", "25", "000", "025", "125", "999"}

QLineCases ==
    [prefix : {"", "Q) "}, fir : {"OIIX", "OIXX"}, codes : {"QRTCA", "QFALC"},
     point : {"3541N05124E", "2958S05234W"}, digits : RadiusDigits]

QLineText(c) == c.prefix \o QLine(c.fir, c.codes, "000", "120", c.point \o c.digits)

parse_q_line_call ==
    /\ parsed = NoResult
    /\ parsed' = Return(parse_q_line(QLineText(notice)))
    /\ UNCHANGED << tick, store, next_id, calls, handed, pc, op, batch, idx, pending, count, ret, notice >>

InitQLine ==
    /\ tick = 1
    /\ store = {}
    /\ next_id = 1
    /\ calls = 0
    /\ handed = 0
    /\ pc = [s \in Sessions |-> "idle"]
    /\ op = [s \in Sessions |-> "none"]
    /\ batch = [s \in Sessions |-> << >>]
    /\ idx = [s \in Sessions |-> 1]
    /\ pending = [s \in Sessions |-> << >>]
    /\ count = [s \in Sessions |-> 0]
    /\ ret = Finished("none", "none", << >>, NoResult)
    /\ notice \in QLineCases
    /\ parsed = NoResult

NextQLine == parse_q_line_call

SpecQLine == InitQLine /\ [][NextQLine]_vars

(***************************************************************************)
(* The cleanup endpoint called again and again while the clock advances    *)
(***************************************************************************)
ADMIN_KEY == "admin_secret_change_me"

AdminKeys == {ADMIN_KEY, "guess"}

(* the endpoint answering success without deleting anything *)
cleanup_airspace_dry(s, admin_key) ==
    /\ pc[s] = "idle"
    /\ IF admin_key # ADMIN_KEY
       THEN /\ store' = store
            /\ ret' = Finished(s, "cleanup_airspace", << admin_key >>, Raise("HTTPException"))
       ELSE LET expired == {r \in store : IsExpired(r, Now)}
            IN /\ store' = store
               /\ ret' = Finished(s, "cleanup_airspace", << admin_key >>,
                                  Return([status |-> "success", removed |-> Cardinality(expired)]))
    /\ UNCHANGED << tick, next_id, calls, handed, pc, op, batch, idx, pending, count, notice, parsed >>

(* DELETE /api/airspace/cleanup: service.cleanup_expired() for the admin key.  *)
(* The sweep is not counted in calls: it can be repeated without bound.        *)
cleanup_airspace(s, admin_key) ==
    /\ pc[s] = "idle"
    /\ IF admin_key # ADMIN_KEY
       THEN /\ store' = store
            /\ ret' = Finished(s, "cleanup_airspace", << admin_key >>, Raise("HTTPException"))
       ELSE LET expired == {r \in store : IsExpired(r, Now)}
            IN /\ store' = store \ expired
               /\ ret' = Finished(s, "cleanup_airspace", << admin_key >>,
                                  Return([status |-> "success", removed |-> Cardinality(expired)]))
    /\ UNCHANGED << tick, next_id, calls, handed, pc, op, batch, idx, pending, count, notice, parsed >>

(* session s1 ingests, session s2 reads and sweeps *)
NextSweep ==
    \/ \E texts \in SharedBatches : parse_and_store("s1", texts)
    \/ parse_and_store_block("s1")
    \/ parse_and_store_commit("s1")
    \/ get_active_airspace("s2", None)
    \/ \E admin_key \in AdminKeys : cleanup_airspace("s2", admin_key)
    \/ Tick

(* the clock advances and the sweep with the admin key keeps being called *)
SpecSweep ==
    /\ Init
    /\ [][NextSweep]_vars
    /\ WF_vars(Tick)
    /\ WF_vars(cleanup_airspace("s2", ADMIN_KEY))

(***************************************************************************)
(* parse_icao_coordinates on its own                                       *)
(***************************************************************************)
(* points at whole-minute precision with |lat| < 90 and |lon| < 180 *)
Points ==
    [lat_deg : {0, 1, 35, 89}, lat_min : {0, 1, 41, 59}, lat_hem : {"N", "S"},
     lon_deg : {0, 9, 51, 179}, lon_min : {0, 24, 59}, lon_hem : {"E", "W"}]

Fmt3(n) == Ch("0123456789", ((n % 1000) \div 100) + 1) \o Fmt2(n)

(* the notation DDMM[N|S]DDDMM[E|W] of a point *)
EncodePoint(p) ==
    Fmt2(p.lat_deg) \o Fmt2(p.lat_min) \o p.lat_hem
    \o Fmt3(p.lon_deg) \o Fmt2(p.lon_min) \o p.lon_hem

parse_icao_coordinates_call ==
    /\ parsed = NoResult
    /\ parsed' = Return(parse_icao_coordinates(EncodePoint(notice)))
    /\ UNCHANGED << tick, store, next_id, calls, handed, pc, op, batch, idx, pending, count, ret, notice >>

InitCodec ==
    /\ tick = 1
    /\ store = {}
    /\ next_id = 1
    /\ calls = 0
    /\ handed = 0
    /\ pc = [s \in Sessions |-> "idle"]
    /\ op = [s \in Sessions |-> "none"]
    /\ batch = [s \in Sessions |-> << >>]
    /\ idx = [s \in Sessions |-> 1]
    /\ pending = [s \in Sessions |-> << >>]
    /\ count = [s \in Sessions |-> 0]
    /\ ret = Finished("none", "none", << >>, NoResult)
    /\ notice \in Points
    /\ parsed = NoResult

NextCodec == parse_icao_coordinates_call

SpecCodec == InitCodec /\ [][NextCodec]_vars

(***************************************************************************)
(* create_circle_polygon on its own                                        *)
(***************************************************************************)
(* centers in arc-minutes, up to 80 degrees of latitude (beyond, the fixed-point *)
(* longitude radius leaves the 32-bit integers) and the date line; radii in nm  *)
CircleLats == {0 - 4800, 0 - 2141, 0, 2141, 4800}
CircleLons == {0 - 10800, 0 - 3084, 0, 3084, 10800}
CircleRadii == {1, 5, 25, 999}

Circles ==
    {[center_lat |-> la, center_lon |-> lo, radius_nm |-> r] :
        la \in CircleLats, lo \in CircleLons, r \in CircleRadii}

create_circle_polygon_call ==
    /\ parsed = NoResult
    /\ parsed' = Return(create_circle_polygon(notice.center_lat, notice.center_lon, notice.radius_nm))
    /\ UNCHANGED << tick, store, next_id, calls, handed, pc, op, batch, idx, pending, count, ret, notice >>

InitPolygon ==
    /\ tick = 1
    /\ store = {}
    /\ next_id = 1
    /\ calls = 0
    /\ handed = 0
    /\ pc = [s \in Sessions |-> "idle"]
    /\ op = [s \in Sessions |-> "none"]
    /\ batch = [s \in Sessions |-> << >>]
    /\ idx = [s \in Sessions |-> 1]
    /\ pending = [s \in Sessions |-> << >>]
    /\ count = [s \in Sessions |-> 0]
    /\ ret = Finished("none", "none", << >>, NoResult)
    /\ notice \in Circles
    /\ parsed = NoResult

NextPolygon == create_circle_polygon_call

SpecPolygon == InitPolygon /\ [][NextPolygon]_vars

(***************************************************************************)
(* Properties                                                              *)
(***************************************************************************)
(* the running parse_and_store of session s returns or raises in this step *)
Ends(s) == pc[s] = "loop" /\ idx[s] > Len(batch[s]) /\ pc'[s] = "idle"

(* a call of the named handler starts and finishes in this step *)
Called(name) == calls' = calls + 1 /\ pc' = pc /\ ret'.op = name

(* the notice_id the parser gives text t at the present clock position, None if no record *)
NoticeIdOf(t) ==
    IF ParseTable[t, tick].out = "return" /\ ParseTable[t, tick].value # None
    THEN Val(ParseTable[t, tick].value).notam_id
    ELSE None

RowsWithId(rows, id) == {r \in rows : r.notam_id = id}

Before(d1, d2) == DtKey(d1) < DtKey(d2)

(* C1: parse_and_store([t]) for a text t with a notice_id: on a store without   *)
(* that notice_id the call returns 1 and leaves exactly one row with it; run   *)
(* again on the store holding the row of t, it returns 0 and leaves the store, *)
(* still with exactly one row of that notice_id, as it was                     *)
C1_TwiceStoresOnce ==
    [][\A t \in StoreTexts :
        (/\ NoticeIdOf(t) # None
         /\ op["s1"] = "parse_and_store" /\ batch["s1"] = << t >> /\ Ends("s1"))
        => /\ RowsWithId(store, NoticeIdOf(t)) = {}
              => /\ ret'.outcome = Return(1)
                 /\ Cardinality(RowsWithId(store', NoticeIdOf(t))) = 1
           /\ (\E r \in store : r.raw_text = t)
              => /\ ret'.outcome = Return(0)
                 /\ store' = store
                 /\ Cardinality(RowsWithId(store', NoticeIdOf(t))) = 1]_vars

(* the second of two calls with the Tehran notice has returned 0 and one row is stored *)
C1_Witness ==
    /\ ret = Finished("s1", "parse_and_store", << NoticeText(NoticeTehran) >>, Return(0))
    /\ calls = 2 /\ handed = 2
    /\ Cardinality(RowsWithId(store, Some("A0123/25"))) = 1
    /\ \E r \in store : r.raw_text = NoticeText(NoticeTehran)

(* C2: a batch of two blocks that parse to the same notice_id, not yet stored:  *)
(* the call returns 1 and exactly one row with that notice_id is stored         *)
C2_InBatchDuplicateSkipped ==
    [][\A t1, t2 \in StoreTexts :
        (/\ NoticeIdOf(t1) # None /\ NoticeIdOf(t1) = NoticeIdOf(t2)
         /\ RowsWithId(store, NoticeIdOf(t1)) = {}
         /\ op["s1"] = "parse_and_store" /\ batch["s1"] = << t1, t2 >> /\ Ends("s1"))
        => /\ ret'.outcome = Return(1)
           /\ Cardinality(RowsWithId(store', NoticeIdOf(t1))) = 1]_vars

(* C3: no two committed rows share a notice_id that is not null *)
C3_NoticeIdUnique ==
    \A r1, r2 \in store : (r1 # r2 /\ r1.notam_id # None) => r1.notam_id # r2.notam_id

(* a second insert of a stored notice_id was refused and the first row is still there *)
C3_Witness ==
    /\ ret.outcome = Raise("IntegrityError")
    /\ Cardinality(RowsWithId(store, Some("A0123/25"))) = 1

(* C4: every finished parse_and_store, whoever called it, returned an integer count *)
C4_NeverRaises ==
    ret.op \in {"parse_and_store", "fetch_real_notams", "load_sample_notams"}
    => ret.outcome.out = "return" /\ ret.outcome.value \in Nat

(* a block with no Q-line and no bare coordinate pattern *)
NoCoordinates(t) == q_match(t) = None /\ coord_match(t) = None

NoCoordinateTexts == {t \in StoreTexts : NoCoordinates(t)}

LatMinutes == ("0000N" :> 0) @@ ("0000S" :> 0) @@ ("3541N" :> 2141) @@ ("3541S" :> (0 - 2141))

LonMinutes == ("00000E" :> 0) @@ ("00000W" :> 0) @@ ("05124E" :> 3084) @@ ("05124W" :> (0 - 3084))

(* C6: a block whose Q-line carries a well-formed point, its other fields being *)
(* well-formed, gives a record whose center is that point                       *)
C6_PointGivesRecord ==
    \A la \in LatTokens, lo \in LonTokens, c \in EndTokens :
        (parsed # NoResult /\ notice = PointNotice(la, lo, c))
        => /\ parsed.out = "return"
           /\ parsed.value # None
           /\ Val(parsed.value).center_lat = LatMinutes[la]
           /\ Val(parsed.value).center_lon = LonMinutes[lo]

(* a filter is given when the fir argument is a non-empty string *)
FilterGiven(fir) == fir # None /\ fir # Some("")

(* C7: get_active_airspace returns exactly the rows with ts_start <= now and    *)
(* (ts_end >= now or is_permanent), and of these the rows of the FIR when a     *)
(* filter is given                                                              *)
C7_ActiveExactly ==
    [][Called("get_active_airspace")
       => ret'.outcome =
            Return({r \in store :
                      /\ ~Before(Now, r.ts_start)
                      /\ \/ (r.ts_end # None /\ ~Before(Val(r.ts_end), Now))
                         \/ r.is_permanent
                      /\ FilterGiven(ret'.args) => r.fir = ret'.args})]_vars

(* a filtered call returned some rows and left others out *)
C7_Witness ==
    /\ ret.op = "get_active_airspace"
    /\ ret.args = Some("OIIX")
    /\ ret.outcome.value # {}
    /\ ret.outcome.value # store

(* C8: cleanup_expired deletes exactly the rows with is_permanent false and     *)
(* ts_end < now and returns their number; permanent rows and rows that          *)
(* get_active_airspace returns at that time stay, as they were                  *)
C8_CleanupExactly ==
    [][Called("cleanup_expired")
       => LET gone == {r \in store : /\ r.is_permanent = FALSE
                                     /\ r.ts_end # None /\ Before(Val(r.ts_end), Now)}
          IN /\ store' = store \ gone
             /\ ret'.outcome = Return(Cardinality(gone))
             /\ \A r \in store : r.is_permanent => r \in store'
             /\ \A r \in store :
                  (/\ ~Before(Now, r.ts_start)
                   /\ \/ (r.ts_end # None /\ ~Before(Val(r.ts_end), Now))
                      \/ r.is_permanent)
                  => r \in store']_vars

(* a cleanup removed one row and left others *)
C8_Witness ==
    /\ ret.op = "cleanup_expired"
    /\ ret.outcome = Return(1)
    /\ store # {}

IsPermToken(x) ==
    /\ Len(x) = 4
    /\ Ch(x, 1) \in {"P", "p"} /\ Ch(x, 2) \in {"E", "e"}
    /\ Ch(x, 3) \in {"R", "r"} /\ Ch(x, 4) \in {"M", "m"}

(* the instants of the two dates of EndFields *)
EndInstant ==
    ("2501120800" :> [year |-> 2025, month |-> 1, day |-> 12, hour |-> 8, minute |-> 0])
    @@ ("2412312359" :> [year |-> 2024, month |-> 12, day |-> 31, hour |-> 23, minute |-> 59])

C11_TehranExample ==
    (/\ parsed # NoResult
     /\ notice.q = Some("OIIX/QRTCA/IV/NBO/W/000/120/3541N05124E025")
     /\ notice.b = Some("2501120000") /\ notice.c = Some("2501140000"))
    => /\ parsed.out = "return" /\ parsed.value # None
       /\ LET rec == Val(parsed.value)
          IN /\ rec.fir = Some("OIIX")
             /\ rec.airspace_type = "temporary_restriction"
             /\ rec.center_lat = 35 * 60 + 41 /\ rec.center_lon = 51 * 60 + 24
             /\ rec.radius_nm = Some(25)
             /\ rec.lower_limit = 0 /\ rec.upper_limit = 120
             /\ rec.ts_start = [year |-> 2025, month |-> 1, day |-> 12, hour |-> 0, minute |-> 0]
             /\ rec.ts_end = Some([year |-> 2025, month |-> 1, day |-> 14, hour |-> 0, minute |-> 0])
             /\ rec.is_permanent = FALSE

(* the three lines alone, without identifier, A) and E), have been parsed to a record *)
C11_Witness ==
    /\ notice = Notice(None, Some(TehranQ), None, Some("2501120000"), Some("2501140000"), None)
    /\ parsed # NoResult /\ parsed.out = "return" /\ parsed.value # None
    /\ Val(parsed.value).radius_nm = Some(25)

(* C12: for every center and every positive radius the ring of                *)
(* create_circle_polygon with 32 samples has exactly 33 points and its last   *)
(* point is its first point                                                   *)
C12_RingClosed ==
    parsed # NoResult
    => /\ Len(parsed.value) = 33
       /\ parsed.value[33] = parsed.value[1]

(* a ring around Tehran with 25 nm radius has been built and is no single point *)
C12_Witness ==
    /\ parsed # NoResult
    /\ notice = [center_lat |-> 2141, center_lon |-> 3084, radius_nm |-> 25]
    /\ Len(parsed.value) = 33
    /\ parsed.value[1] # parsed.value[2]
    /\ parsed.value[1] # parsed.value[17]

(* a radius that is absent, zero or negative *)
NonPositive(radius) == radius = None \/ Val(radius) <= 0

(* C13: a record whose radius_nm is absent, zero or negative is stored all the *)
(* same, without polygon, and to_geojson projects it as a Point at             *)
(* (center_lon, center_lat)                                                    *)
C13_NoRadiusGivesPoint ==
    [][/\ \A r \in store' : NonPositive(r.radius_nm) => r.geometry = None
       /\ Called("get_airspace")
          => \A i \in 1..Len(ret'.outcome.value.features) :
                LET f == ret'.outcome.value.features[i]
                    r == CHOOSE x \in store : x.id = f.properties.id
                IN NonPositive(r.radius_nm)
                   => f.geometry = [type |-> "Point",
                                    coordinates |-> << r.center_lon, r.center_lat >>]
       /\ \A n \in {NoticeZeroRadius, NoticeNegativeRadius} :
            (/\ op["s1"] = "parse_and_store" /\ batch["s1"] = << NoticeText(n) >> /\ Ends("s1")
             /\ RowsWithId(store, n.id) = {})
            => /\ ret'.outcome = Return(1)
               /\ Cardinality(RowsWithId(store', n.id)) = 1]_vars

(* C14: the radius_nm of every stored record is null or strictly positive *)
C14_RadiusPositive ==
    \A r \in store : r.radius_nm = None \/ Val(r.radius_nm) > 0

(* the positions of the Q-line a row was read from, none without a Q-line *)
QPositions(r) ==
    IF r.q_line = None THEN << >> ELSE Split(Strip(Remove2(Val(r.q_line), "Q)")), "/")

(* C15: the lower_limit and upper_limit of every stored record are integers in *)
(* 0..999; where the limit position of the Q-line is missing or not a number   *)
(* they are 0 and 999                                                          *)
C15_LimitsInRange ==
    \A r \in store :
        /\ r.lower_limit \in 0..999
        /\ r.upper_limit \in 0..999
        /\ (Len(QPositions(r)) < 6 \/ PyInt(QPositions(r)[6]) = None) => r.lower_limit = 0
        /\ (Len(QPositions(r)) < 7 \/ PyInt(QPositions(r)[7]) = None) => r.upper_limit = 999

(* the category of each string of CodeStrings: the first of closure, warning, *)
(* hazard, temporary whose marker the string holds, else restriction          *)
CodeCategory ==
    ("QFALC" :> "airport_closure") @@ ("QFAXX" :> "airport_closure")
    @@ ("QWPLW" :> "warning_area") @@ ("QWRLW" :> "warning_area")
    @@ ("QRDCA" :> "hazard_notice")
    @@ ("QRTCA" :> "temporary_restriction") @@ ("QRRCA" :> "temporary_restriction")
    @@ ("QRPCA" :> "temporary_restriction")
    @@ ("QXXXX" :> "airspace_restriction") @@ ("" :> "airspace_restriction")
    @@ ("qfalc" :> "airspace_restriction")
    @@ ("RTCFAL" :> "airport_closure") @@ ("WRLFAX" :> "airport_closure")
    @@ ("RDCWPL" :> "warning_area") @@ ("RRCWRL" :> "warning_area")
    @@ ("RPCRDC" :> "hazard_notice")
    @@ ("RTCRDCWPLFAX" :> "airport_closure")

(* C16: the category is the first match, in the order closure (FAL, FAX),    *)
(* warning_area (WPL, WRL), hazard_notice (RDC), temporary_restriction (RTC, *)
(* RRC, RPC), of the markers the codes string holds, and restriction for a   *)
(* string without marker                                                     *)
C16_FirstMatchWins ==
    \A codes \in CodeStrings :
        (parsed # NoResult /\ notice = CodeNotice(codes))
        => /\ parsed.out = "return" /\ parsed.value # None
           /\ Val(parsed.value).notam_codes = Some(codes)
           /\ Val(parsed.value).airspace_type = CodeCategory[codes]

(* codes holding a temporary and a closure marker have been classified as closure *)
C16_Witness ==
    /\ parsed # NoResult /\ parsed.out = "return" /\ parsed.value # None
    /\ notice = CodeNotice("RTCFAL")
    /\ Val(parsed.value).airspace_type = "airport_closure"

(* C17: a point at whole-minute precision with |lat| < 90 and |lon| < 180,    *)
(* written as DDMM[N|S]DDDMM[E|W] and decoded by parse_icao_coordinates, comes *)
(* back as degrees + minutes/60, negated for S and for W (here in arc-minutes) *)
C17_CodecRoundTrip ==
    parsed # NoResult
    => parsed.value =
         Some([lat |-> (IF notice.lat_hem = "S" THEN 0 - 1 ELSE 1)
                       * (notice.lat_deg * 60 + notice.lat_min),
               lon |-> (IF notice.lon_hem = "W" THEN 0 - 1 ELSE 1)
                       * (notice.lon_deg * 60 + notice.lon_min)])

(* 35 deg 41 min S, 51 deg 24 min W has been decoded to two negative values *)
C17_Witness ==
    /\ parsed # NoResult
    /\ notice = [lat_deg |-> 35, lat_min |-> 41, lat_hem |-> "S",
                 lon_deg |-> 51, lon_min |-> 24, lon_hem |-> "W"]
    /\ parsed.value = Some([lat |-> 0 - 2141, lon |-> 0 - 3084])

(* C18: a block with coordinates whose B) field is ten digits that form no    *)
(* date is stored, with the time of ingestion as its start                    *)
C18_BadStartStored ==
    [][(/\ op["s1"] = "parse_and_store" /\ batch["s1"] = << NoticeText(NoticeBadStart) >>
        /\ Ends("s1")
        /\ RowsWithId(store, NoticeBadStart.id) = {})
       => /\ ret'.outcome = Return(1)
          /\ \E r \in RowsWithId(store', NoticeBadStart.id) :
                \E k \in 1..tick : r.ts_start = TimeAt(k)]_vars

(* C19: a block with coordinates and no qualifier codes (no Q-line, or the    *)
(* Q-line Q) OIIX without second position) gives a record classified on the   *)
(* empty codes string: category restriction                                   *)
C19_NoCodesGivesRestriction ==
    (parsed # NoResult /\ notice \in NoCodeNotices)
    => /\ parsed.out = "return" /\ parsed.value # None
       /\ Val(parsed.value).notam_codes = Some("")
       /\ Val(parsed.value).airspace_type = "airspace_restriction"

(* C20: a stored record keeps every field for as long as it exists: after any *)
(* step of ingesting, reading, projecting or sweeping, a row with the id of a  *)
(* row stored before the step is that row, field by field                      *)
C20_RowsNeverChange ==
    [][\A r \in store : \A x \in store' : x.id = r.id => x = r]_vars

(* the Tehran notice_id came again on another text: nothing stored, the first row as it was *)
C20_Witness ==
    /\ ret = Finished("s1", "parse_and_store", << NoticeText(NoticeTehranClosed) >>, Return(0))
    /\ \E r \in store : /\ r.notam_id = Some("A0123/25")
                         /\ r.raw_text = NoticeText(NoticeTehran)
                         /\ r.updated_at = None
    /\ Cardinality(RowsWithId(store, Some("A0123/25"))) = 1

(* the columns of a row of airspace_events *)
RowFields ==
    {"id", "ts_start", "ts_end", "is_permanent", "geometry", "center_lat", "center_lon",
     "radius_nm", "lower_limit", "upper_limit", "airspace_type", "source", "notam_id",
     "raw_text", "q_line", "fir", "notam_codes", "title", "description",
     "created_at", "updated_at"}

(* C21: a get_active_airspace query running while another session ingests or   *)
(* sweeps returns committed rows only, each with every column of a finished     *)
(* insert; an object a batch has added and not committed is not among them      *)
C21_ReadersSeeCommittedRows ==
    [][Called("get_active_airspace")
       => \A r \in ret'.outcome.value :
            /\ r \in store
            /\ DOMAIN r = RowFields
            /\ r.id \in 1..(next_id - 1)
            /\ \A s \in Sessions : \A k \in 1..Len(pending[s]) :
                  [f \in DOMAIN pending[s][k] |-> r[f]] # pending[s][k]]_vars

(* session s2 has read while the batch of s1 held an active object not yet committed *)
C21_Witness ==
    /\ ret.op = "get_active_airspace" /\ ret.session = "s2"
    /\ pc["s1"] = "loop"
    /\ \E k \in 1..Len(pending["s1"]) : IsActive(pending["s1"][k], Now)
    /\ ret.outcome.value = {}

(* C22: a call that ingests one notice carrying an identifier, whatever another *)
(* session does to the same identifier meanwhile, returns without an error and  *)
(* leaves exactly one row with that identifier                                  *)
C22_ConcurrentSameIdNeverFails ==
    [][\A s \in Sessions :
         (Ends(s) /\ Len(batch[s]) = 1 /\ NoticeIdOf(batch[s][1]) # None)
         => /\ ret'.outcome.out = "return"
            /\ Cardinality(RowsWithId(store', NoticeIdOf(batch[s][1]))) = 1]_vars

(* C23: to_geojson gives a FeatureCollection with exactly one feature per row of *)
(* the list, the i-th feature made from the i-th row, and count equal to the     *)
(* number of features                                                            *)
C23_OneFeaturePerRecord ==
    parsed # NoResult
    => /\ parsed.out = "return"
       /\ parsed.value.type = "FeatureCollection"
       /\ Len(parsed.value.features) = Len(notice)
       /\ parsed.value.count = Len(parsed.value.features)
       /\ \A i \in 1..Len(notice) :
            /\ parsed.value.features[i].type = "Feature"
            /\ parsed.value.features[i].properties.id = notice[i].id
            /\ parsed.value.features[i].properties.notam_id = notice[i].notam_id

(* a list of all four rows, not in the order of their ids, has been projected *)
C23_Witness ==
    /\ parsed # NoResult
    /\ Len(notice) = Len(StoredNotices)
    /\ notice[1].id > notice[2].id
    /\ parsed.value.features[1].geometry.type # parsed.value.features[2].geometry.type

(* the number the radius digits write *)
RadiusValue ==
    [d \in RadiusDigits \ {""} |->
        CASE d = "7" -> 7 [] d = "25" -> 25 [] d = "000" -> 0
          [] d = "025" -> 25 [] d = "125" -> 125 [] d = "999" -> 999]

(* C24 as stated: with k = 1, 2 or 3 radius digits after the point, radius_nm is *)
(* the number they write; the default 5 is used only when there are none         *)
C24_AnyDigitsGiveRadius ==
    parsed # NoResult
    => parsed.value.radius_nm =
         IF notice.digits = "" THEN Some(DefaultRadiusNm) ELSE Some(RadiusValue[notice.digits])

(* C24: radius_nm is the number written by the radius digits when there are      *)
(* three of them, and the default 5 when there are none, one or two              *)
C24_ThreeDigitsGiveRadius ==
    parsed # NoResult
    => /\ parsed.value.lat # None /\ parsed.value.lon # None
       /\ parsed.value.radius_nm =
            IF Len(notice.digits) = 3 THEN Some(RadiusValue[notice.digits])
            ELSE Some(DefaultRadiusNm)

(* a line with two radius digits has been parsed and got the default radius *)
C24_Witness ==
    /\ parsed # NoResult
    /\ notice.digits = "25"
    /\ parsed.value.radius_nm = Some(DefaultRadiusNm)

(* C25: when the Q-line gives no coordinates, the center comes from a bare point *)
(* in the E) text, with radius 5, and from nowhere else: a notice whose E) text  *)
(* has no point gives no record                                                  *)
C25_FallbackReadsBodyOnly ==
    (parsed # NoResult /\ notice \in FallbackNotices)
    => IF Contains(Val(notice.e), "2958N05234E")
       THEN /\ parsed.out = "return" /\ parsed.value # None
            /\ Val(parsed.value).center_lat = 29 * 60 + 58
            /\ Val(parsed.value).center_lon = 52 * 60 + 34
            /\ Val(parsed.value).radius_nm = Some(DefaultRadiusNm)
       ELSE parsed = Return(None)

(* block i of the batch parses to a record and no stored row has its identifier *)
Counted(texts, i, rows) ==
    /\ EventTable[texts[i], tick] # None
    /\ \/ NoticeIdOf(texts[i]) = None
       \/ Val(NoticeIdOf(texts[i])) = ""
       \/ RowsWithId(rows, NoticeIdOf(texts[i])) = {}

(* C26: with no other writer, a call of parse_and_store that returns n leaves    *)
(* the store n rows larger than it found it; n is the number of blocks that      *)
(* parsed to a record and were not skipped as duplicates, and each of them is a  *)
(* committed row; the store does not change while the loop runs                  *)
C26_ReturnCountsStoredRows ==
    [][/\ (pc["s1"] = "loop" /\ pc'["s1"] = "loop" /\ op'["s1"] = op["s1"]) => store' = store
       /\ (Ends("s1") /\ ret'.outcome.out = "return")
          => LET texts == batch["s1"]
                 counted == {i \in 1..Len(texts) : Counted(texts, i, store)}
             IN /\ ret'.outcome.value = Cardinality(counted)
                /\ store \subseteq store'
                /\ Cardinality(store') = Cardinality(store) + ret'.outcome.value
                /\ \A i \in counted : \E r \in store' \ store : r.raw_text = texts[i]]_vars

(* a call on two blocks, one of them stored, has returned 1 *)
C26_Witness ==
    /\ ret.op = "parse_and_store" /\ Len(ret.args) = 2
    /\ ret.outcome = Return(1)
    /\ \E r \in store : r.raw_text \in Range(ret.args)

(* C27: every stored row with is_permanent true has a null ts_end *)
C27_PermanentHasNoEnd ==
    \A r \in store : r.is_permanent => r.ts_end = None

(* a permanent row is stored beside a row with an end *)
C27_Witness ==
    /\ \E r \in store : r.is_permanent /\ r.ts_end = None
    /\ \E r \in store : ~r.is_permanent /\ r.ts_end # None

(* neither an end nor permanent *)
Limbo(r) == r.ts_end = None /\ ~r.is_permanent

(* C28: a stored row with null ts_end and is_permanent false is never removed by *)
(* cleanup_expired and never returned by get_active_airspace; the only step      *)
(* that removes it is the delete-all of refresh_airspace                         *)
C28_LimboRowStays ==
    [][\A r \in store :
         Limbo(r)
         => /\ Called("cleanup_expired") => r \in store'
            /\ Called("get_active_airspace") => r \notin ret'.outcome.value
            /\ r \notin store' => (op'["s1"] = "refresh_airspace" /\ store' = {})]_vars

(* a cleanup has run at the last clock position and left a row, stored at the   *)
(* first, that has neither an end nor the permanent flag                        *)
C28_Witness ==
    /\ ret.op = "cleanup_expired"
    /\ tick = MaxTicks
    /\ \E r \in store : Limbo(r) /\ r.created_at = TimeAt(1)

(* the row has an end, is not permanent, and its end is before d *)
EndsBefore(r, d) == ~r.is_permanent /\ r.ts_end # None /\ Before(Val(r.ts_end), d)

(* C29: with the clock advancing and the cleanup called again and again, every  *)
(* stored row that is not permanent and whose end the clock gets past is        *)
(* eventually removed; and no read returns a row whose end is before now        *)
C29_ExpiredEventuallyRemoved ==
    /\ \A i \in 1..MaxTexts :
         (\E r \in store : r.id = i /\ EndsBefore(r, TimeAt(MaxTicks)))
         ~> (\A r \in store : r.id # i)
    /\ [][Called("get_active_airspace")
          => \A r \in ret'.outcome.value : ~EndsBefore(r, Now)]_vars

(* a sweep at the last clock position has removed the one row, stored at the first *)
C29_Witness ==
    /\ ret.op = "cleanup_airspace"
    /\ ret.outcome = Return([status |-> "success", removed |-> 1])
    /\ tick = MaxTicks
    /\ store = {}
    /\ next_id > 1

(* C30: the center of every stored row is a point of the globe: latitude within *)
(* 90 degrees of the equator, longitude within 180 degrees of Greenwich         *)
(* (coordinates are kept in arc-minutes)                                        *)
C30_CenterOnGlobe ==
    \A r \in store :
        /\ 0 - 90 * 60 <= r.center_lat /\ r.center_lat <= 90 * 60
        /\ 0 - 180 * 60 <= r.center_lon /\ r.center_lon <= 180 * 60

====
